---------------------------- MODULE Spec2Model ----------------------------
(***************************************************************************)
(* A model of src/src/builder.js: the control panel's variable registry,   *)
(* the per-variable edit widgets, the inbound snapshot handler and the     *)
(* outbound update path over the web socket.                               *)
(*                                                                         *)
(* JavaScript numbers are IEEE-754 doubles.  They are modelled exactly:    *)
(* a number is a sign, an arbitrary-precision mantissa and a binary        *)
(* exponent, and every arithmetic operation rounds its exact result to 53  *)
(* bits (round to nearest, ties to even), as the hardware does.  Strings   *)
(* are TLA+ strings; a character is a string of length one.                *)
(***************************************************************************)
EXTENDS Integers, Sequences, FiniteSets, TLC

(***************************************************************************)
(* Natural numbers of arbitrary size: little-endian sequences of limbs in  *)
(* base 2^15 without leading (high) zero limbs; <<>> is zero.              *)
(***************************************************************************)
LimbBase == 32768

LimbBits == 15

Min(S) == CHOOSE x \in S : \A y \in S : x <= y

Max(S) == CHOOSE x \in S : \A y \in S : x >= y

Pow2(n) == 2 ^ n

\* limb i of a, zero beyond its length
Limb(a, i) == IF i >= 1 /\ i <= Len(a) THEN a[i] ELSE 0

\* a without its leading zero limbs
BNorm(a) ==
    IF a = <<>> THEN <<>>
    ELSE SubSeq(a, 1, Max({0} \cup {i \in 1..Len(a) : a[i] # 0}))

BFromInt(n) ==
    BNorm(<<n % LimbBase, (n \div LimbBase) % LimbBase,
            n \div (LimbBase * LimbBase)>>)

\* the limbs of a sum from the limb sums x: the carry into limb i is one
\* when a lower limb sum overflows and every limb sum between is 2^15 - 1
Carried(x) ==
    [i \in DOMAIN x |->
       (x[i] + IF \E j \in 1..(i - 1) :
                     /\ x[j] >= LimbBase
                     /\ \A k \in (j + 1)..(i - 1) : x[k] = LimbBase - 1
               THEN 1 ELSE 0) % LimbBase]

\* a + b
BAdd(a, b) ==
    IF a = <<>> THEN BNorm(b)
    ELSE IF b = <<>> THEN BNorm(a)
    ELSE BNorm(Carried([i \in 1..(Max({Len(a), Len(b)}) + 1) |->
                          Limb(a, i) + Limb(b, i)]))

\* the limbs of a difference from the limb differences d: the borrow from
\* limb i is one when a lower limb difference is negative and every limb
\* difference between is zero
Borrowed(d) ==
    [i \in DOMAIN d |->
       (d[i] - IF \E j \in 1..(i - 1) :
                     /\ d[j] < 0
                     /\ \A k \in (j + 1)..(i - 1) : d[k] = 0
               THEN 1 ELSE 0) % LimbBase]

\* a - b for a >= b
BSub(a, b) ==
    IF a = <<>> \/ b = <<>> THEN a
    ELSE BNorm(Borrowed([i \in 1..Len(a) |-> a[i] - Limb(b, i)]))

\* -1 or 1 as a < b or a > b for a and b of one length whose highest
\* differing limb is limb i, 0 when i is 0
BCmpAt(a, b, i) == IF i = 0 THEN 0 ELSE IF a[i] < b[i] THEN -1 ELSE 1

\* -1, 0 or 1 as a < b, a = b or a > b
BCmp(a, b) ==
    IF Len(a) < Len(b) THEN -1
    ELSE IF Len(a) > Len(b) THEN 1
    ELSE BCmpAt(a, b, Max({0} \cup {i \in 1..Len(a) : a[i] # b[i]}))

\* a * k for 0 <= k < 2^15: the low halves of the limb products plus their
\* high halves one limb up
BMulSmall(a, k) ==
    IF a = <<>> \/ k = 0 THEN <<>>
    ELSE BAdd([i \in 1..Len(a) |-> (a[i] * k) % LimbBase],
              [i \in 1..(Len(a) + 1) |->
                 IF i = 1 THEN 0 ELSE (a[i - 1] * k) \div LimbBase])

\* a * 2^n
BShl(a, n) ==
    IF a = <<>> THEN <<>>
    ELSE [i \in 1..(n \div LimbBits) |-> 0] \o BMulSmall(a, Pow2(n % LimbBits))

\* floor(a / (2^15)^w / p) for p = 2^k, k < 15, and whether a nonzero bit
\* was dropped
BShrBy(a, w, p) ==
    [q |-> BNorm([i \in 1..(Len(a) - w) |->
                    (a[i + w] \div p) + (Limb(a, i + w + 1) % p) * (LimbBase \div p)]),
     sticky |-> \/ Limb(a, w + 1) % p # 0
                \/ \E i \in 1..Len(a) : i <= w /\ a[i] # 0]

\* floor(a / 2^n), and whether a nonzero bit was dropped
BShr(a, n) ==
    IF a = <<>> THEN [q |-> <<>>, sticky |-> FALSE]
    ELSE BShrBy(a, n \div LimbBits, Pow2(n % LimbBits))

\* a * b, limb by limb of a; acc is the sum so far
RECURSIVE BMulAt(_, _, _, _)
BMulAt(a, b, i, acc) ==
    IF acc = <<>> /\ i > Len(a) THEN <<>>
    ELSE IF i > Len(a) THEN acc
    ELSE BMulAt(a, b, i + 1, BAdd(acc, [j \in 1..(i - 1) |-> 0] \o BMulSmall(b, a[i])))

BMul(a, b) == IF a = <<>> \/ b = <<>> THEN <<>> ELSE BMulAt(a, b, 1, <<>>)

\* floor(a / k) and a mod k for 0 < k < 2^15, the limbs taken from the top;
\* q collects the quotient's limbs, r is the remainder so far
RECURSIVE BDivSmallAt(_, _, _, _, _)
BDivSmallAt(a, k, i, q, r) ==
    IF i = 0 THEN [q |-> BNorm(q), r |-> r]
    ELSE IF r * LimbBase + a[i] < k
    THEN BDivSmallAt(a, k, i - 1, <<0>> \o q, r * LimbBase + a[i])
    ELSE BDivSmallAt(a, k, i - 1, <<(r * LimbBase + a[i]) \div k>> \o q,
                     (r * LimbBase + a[i]) % k)

BDivSmall(a, k) ==
    IF a = <<>> THEN [q |-> <<>>, r |-> 0] ELSE BDivSmallAt(a, k, Len(a), <<>>, 0)

\* the number of bits of 0 <= n < 2^31
IntBitLen(n) == Cardinality({k \in 0..30 : Pow2(k) <= n})

BitLen(a) ==
    IF a = <<>> THEN 0 ELSE LimbBits * (Len(a) - 1) + IntBitLen(a[Len(a)])

\* bit i (from 0) of a
BBit(a, i) == (Limb(a, (i \div LimbBits) + 1) \div Pow2(i % LimbBits)) % 2

\* the largest d <= qhat with d * b <= cur
RECURSIVE QuotFit(_, _, _)
QuotFit(cur, b, qhat) ==
    IF qhat = 0 \/ BCmp(BMulSmall(b, qhat), cur) <= 0 THEN qhat
    ELSE QuotFit(cur, b, qhat - 1)

\* the largest d with d * b <= cur, for cur < b * 2^15 and b of at least two
\* limbs whose top limb is at least 2^14: the estimate from the top limbs is
\* at most two too large (Knuth, TAOCP 4.3.1, theorem B)
QuotDigit(cur, b) ==
    QuotFit(cur, b,
            Min({LimbBase - 1,
                 (Limb(cur, Len(b) + 1) * LimbBase + Limb(cur, Len(b))) \div b[Len(b)]}))

\* long division in base 2^15, the limbs of a taken from the top; q collects
\* the quotient's limbs, r is the remainder so far, cur is r with limb i of
\* a below it and d is the quotient's limb i
RECURSIVE BDivLimbs(_, _, _, _, _)
BDivRest(a, b, i, q, d, rest) ==
    IF rest = <<>> THEN BDivLimbs(a, b, i - 1, <<d>> \o q, <<>>)
    ELSE BDivLimbs(a, b, i - 1, <<d>> \o q, rest)

BDivDigit(a, b, i, q, cur, d) ==
    IF d = 0 THEN BDivLimbs(a, b, i - 1, <<0>> \o q, cur)
    ELSE BDivRest(a, b, i, q, d, BSub(cur, BMulSmall(b, d)))

BDivTake(a, b, i, q, cur) ==
    IF cur = <<>> THEN BDivLimbs(a, b, i - 1, <<0>> \o q, <<>>)
    ELSE BDivDigit(a, b, i, q, cur, QuotDigit(cur, b))

BDivLimbs(a, b, i, q, r) ==
    IF i = 0 THEN [q |-> q, r |-> r]
    ELSE BDivTake(a, b, i, q, BNorm(<<Limb(a, i)>> \o r))

\* the quotient and the remainder of a / b from those, d, of the division
\* of both times 2^shift
BDivResult(d, shift) == [q |-> BNorm(d.q), r |-> BShr(d.r, shift).q]

\* a / b through the division of both times 2^shift, which brings the top
\* limb of b to 2^14 at least and gives a at most one limb more
BDivShifted(a, b, shift) ==
    BDivResult(BDivLimbs(BShl(a, shift), BShl(b, shift), Len(a) + 1, <<>>, <<>>), shift)

\* floor(a / b) and a mod b for b > 0
BDiv(a, b) ==
    IF a = <<>> THEN [q |-> <<>>, r |-> <<>>]
    ELSE IF Len(b) = 1 THEN [BDivSmall(a, b[1]) EXCEPT !.r = BFromInt(@)]
    ELSE IF BCmp(a, b) < 0 THEN [q |-> <<>>, r |-> a]
    ELSE BDivShifted(a, b, LimbBits - IntBitLen(b[Len(b)]))

(***************************************************************************)
(* IEEE-754 binary64 numbers.  A number is [sign, m, e] with value         *)
(* sign * m * 2^e, m a natural below 2^53 that is odd (so each value has   *)
(* one representation); zero is [sign |-> 1, m |-> <<>>, e |-> 0].  The    *)
(* model's inputs keep magnitudes far from the overflow and subnormal      *)
(* ranges, so the exponent is unbounded here; -0 is identified with 0.     *)
(***************************************************************************)
MantBits == 53

Zero == [sign |-> 1, m |-> <<>>, e |-> 0]

\* the number of trailing zero bits of a > 0
TrailingZeros(a) == Min({k \in 0..(LimbBits * Len(a)) : BBit(a, k) = 1})

\* sign * m * 2^e for an m with z trailing zero bits
Odd(sign, m, e, z) == [sign |-> sign, m |-> BShr(m, z).q, e |-> e + z]

\* sign * m * 2^e for an m that already fits 53 bits, in its one representation
Canon(sign, m, e) ==
    IF m = <<>> THEN Zero ELSE Odd(sign, m, e, TrailingZeros(m))

\* s.q or one more: m without its low drop bits, s.q, rounded to nearest,
\* ties to even, by the highest dropped bit, the bits below it (and sticky)
\* and the lowest kept bit
TiesToEven(m, drop, sticky, s) ==
    IF /\ BBit(m, drop - 1) = 1
       /\ (sticky \/ BShr(m, drop - 1).sticky \/ BBit(s.q, 0) = 1)
    THEN BAdd(s.q, <<1>>)
    ELSE s.q

\* m without its low drop bits (and, with sticky, a little more), rounded
\* to nearest, ties to even
RoundedMantissa(m, drop, sticky) ==
    IF drop <= 0 THEN m ELSE TiesToEven(m, drop, sticky, BShr(m, drop))

\* sign * m * 2^e (and, with sticky, a little more) rounded to 53 bits,
\* to nearest, ties to even
RoundDropping(sign, m, e, sticky, drop) ==
    Canon(sign, RoundedMantissa(m, drop, sticky), e + Max({drop, 0}))

RoundBits(sign, m, e, sticky) ==
    IF m = <<>> THEN Zero ELSE RoundDropping(sign, m, e, sticky, BitLen(m) - MantBits)

\* sign * (n / d) * 2^e rounded to a double, n and d naturals, d > 0
RoundRemainder(sign, qr, e) == RoundBits(sign, qr.q, e, qr.r # <<>>)

\* sign * (n / d) * 2^e through the quotient of n * 2^k by d, of at least
\* 55 bits
RoundScaled(sign, n, d, e, k) == RoundRemainder(sign, BDiv(BShl(n, k), d), e - k)

RoundQuot(sign, n, d, e) ==
    IF n = <<>> \/ d = <<>> THEN Zero
    ELSE RoundScaled(sign, n, d, e, Max({MantBits + 2 + BitLen(d) - BitLen(n), 0}))

\* not a number: what an operation on it gives
NaN == [sign |-> 0, m |-> <<>>, e |-> 0]

FromInt(n) == Canon(IF n < 0 THEN -1 ELSE 1, BFromInt(IF n < 0 THEN -n ELSE n), 0)

Neg(x) == IF x.m = <<>> THEN x ELSE [x EXCEPT !.sign = -x.sign]

\* -1, 0, 1 as |x| < |y|, |x| = |y|, |x| > |y|
CmpMag(x, y) ==
    IF x.m = <<>> \/ y.m = <<>>
    THEN (IF x.m = y.m THEN 0 ELSE IF x.m = <<>> THEN -1 ELSE 1)
    ELSE BCmp(BShl(x.m, x.e - Min({x.e, y.e})), BShl(y.m, y.e - Min({x.e, y.e})))

\* -1, 0, 1 as x < y, x = y, x > y
Cmp(x, y) ==
    IF x.m = <<>> /\ y.m = <<>> THEN 0
    ELSE IF x.m = <<>> THEN -y.sign
    ELSE IF y.m = <<>> THEN x.sign
    ELSE IF x.sign # y.sign THEN x.sign
    ELSE x.sign * CmpMag(x, y)

\* the exact sum of xsign * a and ysign * b, as a sign and a magnitude
SignedSum(xsign, a, ysign, b) ==
    IF xsign = ysign THEN [sign |-> xsign, m |-> BAdd(a, b)]
    ELSE IF BCmp(a, b) >= 0 THEN [sign |-> xsign, m |-> BSub(a, b)]
    ELSE [sign |-> ysign, m |-> BSub(b, a)]

RoundSigned(s, e) == RoundBits(s.sign, s.m, e, FALSE)

\* x + y with both mantissas brought to the exponent lo
AddAt(x, y, lo) ==
    RoundSigned(SignedSum(x.sign, BShl(x.m, x.e - lo), y.sign, BShl(y.m, y.e - lo)), lo)

\* x + y
Add(x, y) ==
    IF x = NaN \/ y = NaN THEN NaN
    ELSE IF x.m = <<>> THEN y
    ELSE IF y.m = <<>> THEN x
    ELSE AddAt(x, y, Min({x.e, y.e}))

Sub(x, y) == IF x = NaN \/ y = NaN THEN NaN ELSE Add(x, Neg(y))

\* x * y
Mul(x, y) ==
    IF x = NaN \/ y = NaN THEN NaN
    ELSE IF x.m = <<>> \/ y.m = <<>> THEN Zero
    ELSE RoundBits(x.sign * y.sign, BMul(x.m, y.m), x.e + y.e, FALSE)

\* x / y for y # 0
Div(x, y) ==
    IF x = NaN \/ y = NaN THEN NaN
    ELSE RoundQuot(x.sign * y.sign, x.m, y.m, x.e - y.e)

IsInteger(x) == x.m = <<>> \/ x.e >= 0

\* the integer d.q, one more when a nonzero bit was dropped
Ceiling(d) == IF d.sticky THEN BAdd(d.q, <<1>>) ELSE d.q

\* |floor(x + 1/2)| for x = sign * m / 2^k that is no integer, half = 2^(k-1)
RoundedHalfUp(sign, m, k, half) ==
    IF sign = 1 THEN BShr(BAdd(m, half), k).q
    ELSE IF BCmp(m, half) <= 0 THEN <<>>
    ELSE Ceiling(BShr(BSub(m, half), k))

\* Math.round(x): floor(x + 1/2), exactly (ties go up)
MathRound(x) ==
    IF x = NaN \/ IsInteger(x) THEN x
    ELSE Canon(x.sign, RoundedHalfUp(x.sign, x.m, -x.e, BShl(<<1>>, -x.e - 1)), 0)

\* Math.max(x, y) and Math.min(x, y)
MathMax(x, y) ==
    IF x = NaN \/ y = NaN THEN NaN ELSE IF Cmp(x, y) >= 0 THEN x ELSE y

MathMin(x, y) ==
    IF x = NaN \/ y = NaN THEN NaN ELSE IF Cmp(x, y) <= 0 THEN x ELSE y

\* the powers of ten 10^1 .. 10^35 as limbs (10^n is Pow10Table[n])
Pow10Table ==
    <<<<10>>,
      <<100>>,
      <<1000>>,
      <<10000>>,
      <<1696, 3>>,
      <<16960, 30>>,
      <<5760, 305>>,
      <<24832, 3051>>,
      <<18944, 30517>>,
      <<25600, 10263, 9>>,
      <<26624, 4333, 93>>,
      <<4096, 10570, 931>>,
      <<8192, 7397, 9313>>,
      <<16384, 8436, 27596, 2>>,
      <<0, 18829, 13818, 28>>,
      <<0, 24450, 7113, 284>>,
      <<0, 15124, 5601, 2842>>,
      <<0, 20168, 23246, 28421>>,
      <<0, 5072, 3090, 22073, 8>>,
      <<0, 17952, 30901, 24122, 86>>,
      <<0, 15680, 14103, 11853, 867>>,
      <<0, 25728, 9962, 20230, 8673>>,
      <<0, 27904, 1323, 5695, 21200, 2>>,
      <<0, 16896, 13238, 24182, 15393, 26>>,
      <<0, 5120, 1313, 12448, 22865, 264>>,
      <<0, 18432, 13131, 26176, 32045, 2646>>,
      <<0, 20480, 243, 32388, 25545, 26469>>,
      <<0, 8192, 2436, 28968, 26083, 2553, 8>>,
      <<0, 16384, 24362, 27536, 31462, 25537, 80>>,
      <<0, 0, 14249, 13223, 19716, 26003, 807>>,
      <<0, 0, 11418, 1162, 556, 30660, 8077>>,
      <<0, 0, 15876, 11623, 5560, 11688, 15243, 2>>,
      <<0, 0, 27688, 17930, 22835, 18577, 21361, 24>>,
      <<0, 0, 14736, 15468, 31747, 21936, 17007, 246>>,
      <<0, 0, 16288, 23612, 22562, 22761, 6236, 2465>>>>

MaxPow10 == Len(Pow10Table)

Pow10(n) == IF n = 0 THEN <<1>> ELSE Pow10Table[n]

\* Math.pow(10, n) for 0 <= n <= 22, where the power is exact
MathPow10(n) == Canon(1, Pow10(n), 0)

(***************************************************************************)
(* Numbers and strings: parseFloat, parseInt and Number.prototype.toString.*)
(* The literal "Infinity", exponent notation on output (magnitudes from    *)
(* 1e21 up or below 1e-6) and the output of integers above 2^53 lie        *)
(* outside the model's inputs.                                             *)
(***************************************************************************)
\* x || 0 for a number x: NaN and 0 are falsy
OrZero(x) == IF x = NaN \/ x = Zero THEN Zero ELSE x

\* the characters a..b of the string s (from 1, both included), cut to s
Slice(s, a, b) ==
    IF s = "" \/ Max({a, 1}) > Min({b, Len(s)}) THEN ""
    ELSE SubSeq(s, Max({a, 1}), Min({b, Len(s)}))

Char(s, i) == Slice(s, i, i)

Digits == {"0", "1", "2", "3", "4", "5", "6", "7", "8", "9"}

HexDigits == Digits \cup {"a", "b", "c", "d", "e", "f", "A", "B", "C", "D", "E", "F"}

DigitValue(c) ==
    CASE c = "0" -> 0 [] c = "1" -> 1 [] c = "2" -> 2 [] c = "3" -> 3
      [] c = "4" -> 4 [] c = "5" -> 5 [] c = "6" -> 6 [] c = "7" -> 7
      [] c = "8" -> 8 [] c = "9" -> 9
      [] c \in {"a", "A"} -> 10 [] c \in {"b", "B"} -> 11
      [] c \in {"c", "C"} -> 12 [] c \in {"d", "D"} -> 13
      [] c \in {"e", "E"} -> 14 [] c \in {"f", "F"} -> 15

\* \s of a regular expression, and what trim() removes
WhiteSpace == {" ", "\t", "\n", "\r"}

\* \w of a regular expression
WordChars ==
    Digits \cup {"_"} \cup
    {"a", "b", "c", "d", "e", "f", "g", "h", "i", "j", "k", "l", "m",
     "n", "o", "p", "q", "r", "s", "t", "u", "v", "w", "x", "y", "z"} \cup
    {"A", "B", "C", "D", "E", "F", "G", "H", "I", "J", "K", "L", "M",
     "N", "O", "P", "Q", "R", "S", "T", "U", "V", "W", "X", "Y", "Z"}

\* the index after the longest run of characters of cs in s that starts at i
Span(s, i, cs) ==
    Min({j \in i..(Len(s) + 1) : j = Len(s) + 1 \/ Char(s, j) \notin cs} \cup {Max({i, Len(s) + 1})})

\* the index before the longest run of characters of cs in s that ends at i
SpanBack(s, i, cs) == Max({j \in 0..i : j = 0 \/ Char(s, j) \notin cs})

\* String.prototype.trim
Trim(s) ==
    IF s = "" THEN ""
    ELSE Slice(s, Span(s, 1, WhiteSpace), SpanBack(s, Len(s), WhiteSpace))

StartsWith(s, p) == Len(s) >= Len(p) /\ Slice(s, 1, Len(p)) = p

EndsWith(s, p) == Len(s) >= Len(p) /\ Slice(s, Len(s) - Len(p) + 1, Len(s)) = p

\* the number written by at most four digits of s, from i to j
RECURSIVE DigitsToInt(_, _, _, _)
DigitsToInt(s, i, j, radix) ==
    IF j < i THEN 0
    ELSE DigitsToInt(s, i, j - 1, radix) * radix + DigitValue(Char(s, j))

RECURSIVE IntPow(_, _)
IntPow(b, n) == IF n = 0 THEN 1 ELSE b * IntPow(b, n - 1)

\* the natural number written by the digits of s from i on in the given
\* radix (10 or 16), taken three digits at a time; acc is the number so far
RECURSIVE DigitsToBig(_, _, _, _)
DigitsToBigChunk(s, i, j, radix, acc) ==
    DigitsToBig(s, j + 1, radix,
                BAdd(BMulSmall(acc, IntPow(radix, j - i + 1)),
                     BFromInt(DigitsToInt(s, i, j, radix))))

DigitsToBig(s, i, radix, acc) ==
    IF acc = <<>> /\ i > Len(s) THEN <<>>
    ELSE IF i > Len(s) THEN acc
    ELSE DigitsToBigChunk(s, i, Min({i + 2, Len(s)}), radix, acc)

\* sign * n * 10^p as a double
Decimal(sign, n, p) ==
    IF n = <<>> THEN Zero
    ELSE RoundQuot(sign, BMul(n, Pow10(Max({p, 0}))), Pow10(Max({-p, 0})), 0)

\* the exponent of the decimal literal in t whose significand ends before
\* index c: 0 unless e or E, a sign and at least one digit follow
\* the number written by the digits of t from d on, 0 if there is none
DigitRun(t, d) == DigitsToInt(t, d, Span(t, d, Digits) - 1, 10)

ExponentPart(t, c) ==
    IF Char(t, c) \notin {"e", "E"} THEN 0
    ELSE (IF Char(t, c + 1) = "-" THEN -1 ELSE 1)
         * DigitRun(t, IF Char(t, c + 1) \in {"-", "+"} THEN c + 2 ELSE c + 1)

\* parseFloat(s): the longest prefix of the trimmed s that is a decimal
\* literal, NaN if there is none.  In the trimmed text t the digits of the
\* integer part are a..b-1 and, after a point at b, those of the fraction
\* are b+1..c-1.
FloatFraction(t, a, b, c) ==
    IF b = a /\ c <= b + 1 THEN NaN
    ELSE Decimal(IF Char(t, 1) = "-" THEN -1 ELSE 1,
                 DigitsToBig(Slice(t, a, b - 1) \o Slice(t, b + 1, c - 1), 1, 10, <<>>),
                 ExponentPart(t, c) - Max({c - b - 1, 0}))

FloatWhole(t, a, b) ==
    FloatFraction(t, a, b, IF Char(t, b) = "." THEN Span(t, b + 1, Digits) ELSE b)

FloatPrefix(t) ==
    IF t = "" THEN NaN
    ELSE FloatWhole(t, IF Char(t, 1) \in {"-", "+"} THEN 2 ELSE 1,
                    Span(t, IF Char(t, 1) \in {"-", "+"} THEN 2 ELSE 1, Digits))

ParseFloat(s) == FloatPrefix(Trim(s))

\* parseInt(s): the longest prefix of the trimmed s that is an integer
\* literal (hexadecimal after 0x, decimal otherwise), NaN if there is none.
\* In the trimmed text t the digits are b..c-1.
IntLiteral(neg, digits, radix) ==
    IF digits = "" THEN NaN
    ELSE RoundBits(IF neg THEN -1 ELSE 1, DigitsToBig(digits, 1, radix, <<>>), 0, FALSE)

IntRun(t, b, radix) ==
    IntLiteral(Char(t, 1) = "-",
               Slice(t, b, Span(t, b, IF radix = 16 THEN HexDigits ELSE Digits) - 1),
               radix)

IntPrefix(t, a) ==
    IntRun(t, IF Slice(t, a, a + 1) \in {"0x", "0X"} THEN a + 2 ELSE a,
           IF Slice(t, a, a + 1) \in {"0x", "0X"} THEN 16 ELSE 10)

ParseInt(s) == IntPrefix(Trim(s), IF Char(Trim(s), 1) \in {"-", "+"} THEN 2 ELSE 1)

DigitChar(d) == Char("0123456789", d + 1)

Zeros(k) == Slice("0000000000000000000000000000000000000000", 1, k)

\* the decimal digits of 0 <= n < 10000, without leading zeros ("" for zero)
RECURSIVE IntToDigits(_)
IntToDigits(n) ==
    IF n = 0 THEN "" ELSE IntToDigits(n \div 10) \o DigitChar(n % 10)

\* the decimal digits of the natural number n ("" for zero), four at a time
RECURSIVE BigToDigits(_)
BigToDigitsParts(d) ==
    IF d.q = <<>> THEN IntToDigits(d.r)
    ELSE BigToDigits(d.q) \o Zeros(4 - Len(IntToDigits(d.r))) \o IntToDigits(d.r)

BigToDigits(n) ==
    IF n = <<>> THEN "" ELSE BigToDigitsParts(BDivSmall(n, 10000))

\* floor(a / 2^k + 1/2) for k > 0
HalfUpShift(a, k) == BShr(BAdd(BShr(a, k - 1).q, <<1>>), 1).q

\* a * 2^t for t >= 0, a for t < 0
ShlFrom(a, t) == IF t < 0 THEN a ELSE BShl(a, t)

\* the natural number nearest m * 2^e * 10^f
NearestProduct(product, e) ==
    IF e >= 0 THEN BShl(product, e) ELSE HalfUpShift(product, -e)

NearestScaled(m, e, f) == NearestProduct(BMul(m, Pow10(f)), e)

\* whether left lies between lo and hi, the ends counted when closed
Within(lo, left, hi, closed) ==
    IF closed THEN BCmp(lo, left) <= 0 /\ BCmp(left, hi) <= 0
    ELSE BCmp(lo, left) < 0 /\ BCmp(left, hi) < 0

\* whether the decimal n / 10^f rounds to the double m * 2^e (m odd): it
\* lies between the midpoints to the neighbouring doubles, which count
\* when the 53-bit mantissa is even.  With M the 53-bit mantissa and 2^E
\* its unit, the midpoints are (4M + 2) * 2^(E-2) above and, below,
\* (4M - 2) * 2^(E-2), or (4M - 1) * 2^(E-2) under a power of two.
ReadsBackScaled(m, e, f, lower, upper, t, closed) ==
    Within(ShlFrom(BMul(lower, Pow10(f)), t),
           ShlFrom(NearestScaled(m, e, f), -t),
           ShlFrom(BMul(upper, Pow10(f)), t),
           closed)

ReadsBackPadded(m, e, f, pad) ==
    ReadsBackScaled(m, e, f,
                    BSub(BShl(m, pad + 2), IF m = <<1>> THEN <<1>> ELSE <<2>>),
                    BAdd(BShl(m, pad + 2), <<2>>), e - pad - 2, pad > 0)

ReadsBack(m, e, f) == ReadsBackPadded(m, e, f, MantBits - BitLen(m))

\* the fewest fraction digits f such that the decimal with f fraction digits
\* nearest m * 2^e reads back as the same double
RECURSIVE FractionDigitsFrom(_, _, _)
FractionDigitsFrom(m, e, f) ==
    IF f = MaxPow10 \/ ReadsBack(m, e, f) THEN f ELSE FractionDigitsFrom(m, e, f + 1)

FractionDigits(m, e) == FractionDigitsFrom(m, e, 0)

\* the digits ds of a number's nearest decimal with f > 0 fraction digits,
\* with the point in place
Pointed(all, f) ==
    Slice(all, 1, Len(all) - f) \o "." \o Slice(all, Len(all) - f + 1, Len(all))

\* Number.prototype.toString: the shortest decimal that reads back as x
\* the decimal with the digits ds, f of them fraction digits (ds lacks
\* the leading zeros that stand before and after the point)
Written(sign, f, ds) ==
    IF f = 0 THEN sign \o ds
    ELSE IF ds = "" THEN "0"
    ELSE sign \o Pointed(Zeros(f + 1 - Len(ds)) \o ds, f)

\* x to f fraction digits
ToFixed(x, f) ==
    Written(IF x.sign < 0 THEN "-" ELSE "", f, BigToDigits(NearestScaled(x.m, x.e, f)))

NumberToString(x) ==
    IF x = NaN THEN "NaN"
    ELSE IF x = Zero THEN "0"
    ELSE ToFixed(x, FractionDigits(x.m, x.e))

(***************************************************************************)
(* The program.  The registry is the list `variables`; widget i is the     *)
(* VariableComponent drawn for variables[i], with its own isEditing and    *)
(* editValue.  ws is the transport: its readyState and, as ws.sent, the    *)
(* messages that ws.send has put on the wire.                              *)
(***************************************************************************)
VARIABLES
    variables,   \* the registry, builder.js:79
    isEditing,   \* isEditing[i]: this.isEditing of widget i
    editValue,   \* editValue[i]: this.editValue of widget i
    focused,     \* the widget whose input has the focus, 0 if none
    ws,          \* the transport
    event,       \* the last event handled: its type, target and data, the
                 \* log of its handler, the session and the number of
                 \* messages on the wire before it
    issued,      \* the updates passed to sendVariableUpdate while ws was open
    net,         \* net[i]: Up clicks minus Down clicks on variable i since
                 \* the start, as long as nothing else wrote it
    session,     \* what happened since the focused input got the focus
    nEvents      \* the number of events handled so far

vars ==
    <<variables, isEditing, editValue, focused, ws, event, issued, net,
      session, nEvents>>

\* const variables = [...]; a number literal is the double that reads it
VariableData ==
    <<[name |-> "move_dist", type |-> "float", value |-> Zero,
       step |-> ParseFloat("0.01")],
      [name |-> "turn_rate", type |-> "float", value |-> Zero,
       step |-> ParseFloat("0.5")],
      [name |-> "sample_dist", type |-> "float", value |-> Zero,
       step |-> ParseFloat("0.01")],
      [name |-> "sample_angle", type |-> "float", value |-> Zero,
       step |-> ParseFloat("0.05")],
      [name |-> "move_dist_mod", type |-> "float", value |-> Zero,
       step |-> ParseFloat("0.01")],
      [name |-> "turn_rate_mod", type |-> "float", value |-> Zero,
       step |-> ParseFloat("0.5")],
      [name |-> "sample_dist_mod", type |-> "float", value |-> Zero,
       step |-> ParseFloat("0.01")],
      [name |-> "sample_angle_mod", type |-> "float", value |-> Zero,
       step |-> ParseFloat("0.05")],
      [name |-> "density_scale", type |-> "int", value |-> Zero,
       step |-> ParseFloat("1")],
      [name |-> "pheromone_decay_rate", type |-> "float", value |-> Zero,
       step |-> ParseFloat("-0.5"),
       range |-> [min |-> ParseFloat("-100"), max |-> ParseFloat("1")]]>>

\* this.variables.map(...): one VariableComponent for each variable
Widgets == DOMAIN variables

\* the value of a property that is not there
Undefined == [undefined |-> TRUE]

\* variable_def.range
RangeOf(variable_def) ==
    IF "range" \in DOMAIN variable_def THEN variable_def.range ELSE Undefined

getDefaultStep(type) == ParseFloat(IF type = "int" THEN "1" ELSE "0.1")

\* variable_def.step || getDefaultStep(variable_def.type)
StepOf(variable_def) ==
    IF "step" \in DOMAIN variable_def /\ variable_def.step \notin {Zero, NaN}
    THEN variable_def.step
    ELSE getDefaultStep(variable_def.type)

\* clampValue without the line that applies range.max
clampValueNoMax(value, range) ==
    IF range = Undefined THEN value
    ELSE IF "min" \in DOMAIN range THEN MathMax(range.min, value)
    ELSE value

\* if (range.max !== undefined) clamped = Math.min(range.max, clamped)
ClampMax(clamped, range) ==
    IF "max" \in DOMAIN range THEN MathMin(range.max, clamped) ELSE clamped

clampValue(value, range) ==
    IF range = Undefined THEN value
    ELSE ClampMax(IF "min" \in DOMAIN range THEN MathMax(range.min, value) ELSE value,
                  range)

(***************************************************************************)
(* A handler works on the program state st = [variables, isEditing,        *)
(* editValue, ws] and is an operator from the state before to the state    *)
(* after; st.log records, in order, the registry writes and the calls of   *)
(* sendVariableUpdate the handler made.                                    *)
(***************************************************************************)
Current ==
    [variables |-> variables, isEditing |-> isEditing, editValue |-> editValue,
     ws |-> ws, log |-> <<>>]

\* variable_def.value = newValue
Store(st, i, newValue) ==
    [st EXCEPT !.variables[i].value = newValue,
               !.log = Append(@, [op |-> "write", name |-> st.variables[i].name,
                                  value |-> newValue,
                                  open |-> st.ws.readyState = "OPEN"])]

\* the call sendVariableUpdate(variableName, value) is about to be made
Calling(st, variableName, value) ==
    [st EXCEPT !.log = Append(@, [op |-> "send", name |-> variableName,
                                  value |-> value,
                                  open |-> st.ws.readyState = "OPEN"])]

\* `${baseName} ${value}`, and " mod" after it if hasMod
MessageText(baseName, value, hasMod) ==
    baseName \o " " \o NumberToString(value) \o (IF hasMod THEN " mod" ELSE "")

\* sendVariableUpdate without the test of ws.readyState
sendVariableUpdateUnguarded(st, variableName, value) ==
    [st EXCEPT !.ws.sent =
         Append(@, MessageText(IF EndsWith(variableName, "_mod")
                               THEN Slice(variableName, 1, Len(variableName) - 4)
                               ELSE variableName,
                               value, EndsWith(variableName, "_mod")))]

\* sendVariableUpdate without the removal of the _mod suffix
sendVariableUpdateKeepName(st, variableName, value) ==
    IF st.ws.readyState # "OPEN" THEN st
    ELSE [st EXCEPT !.ws.sent =
              Append(@, MessageText(variableName, value, EndsWith(variableName, "_mod")))]

\* ws is never null once initWebSocket has run, which App.oninit does
sendVariableUpdate(st, variableName, value) ==
    IF st.ws.readyState # "OPEN" THEN st
    ELSE [st EXCEPT !.ws.sent =
              Append(@, MessageText(IF EndsWith(variableName, "_mod")
                                    THEN Slice(variableName, 1, Len(variableName) - 4)
                                    ELSE variableName,
                                    value, EndsWith(variableName, "_mod")))]

\* variable_def.value = newValue; sendVariableUpdate(variable_def.name, newValue)
StoreAndSend(st, i, newValue) ==
    sendVariableUpdate(Calling(Store(st, i, newValue), st.variables[i].name, newValue),
                       st.variables[i].name, newValue)

\* the pieces of s between the separators sep (one character), the first
\* of them at index at, none if at is past the end
RECURSIVE Split(_, _)
SplitAt(s, sep, at) ==
    IF at > Len(s) THEN <<s>>
    ELSE <<Slice(s, 1, at - 1)>> \o Split(Slice(s, at + 1, Len(s)), sep)

\* String.prototype.split for a separator of one character
Split(s, sep) ==
    SplitAt(s, sep, Min({k \in 1..(Len(s) + 1) : k = Len(s) + 1 \/ Char(s, k) = sep}))

\* parts[1]?.length || 0
FractionLength(parts) == IF Len(parts) >= 2 THEN Len(parts[2]) ELSE 0

\* step.toString().split(".")[1]?.length || 0
Decimals(step) == FractionLength(Split(NumberToString(step), "."))

\* Math.round(newValue * Math.pow(10, decimals)) / Math.pow(10, decimals)
RoundToDecimals(newValue, decimals) ==
    Div(MathRound(Mul(newValue, MathPow10(decimals))), MathPow10(decimals))

\* the rounding of a click for a variable of type "float"
RoundForType(type, step, newValue) ==
    IF type = "float" THEN RoundToDecimals(newValue, Decimals(step)) ELSE newValue

\* the Up button's onclick without the rounding to the step's decimals
UpOnClickNoRounding(st, i) ==
    StoreAndSend(st, i, clampValue(Add(st.variables[i].value, StepOf(st.variables[i])),
                                   RangeOf(st.variables[i])))

\* the value an Up click gives to variable_def
UpValue(variable_def, step) ==
    RoundForType(variable_def.type, step,
                 clampValue(Add(variable_def.value, step), RangeOf(variable_def)))

\* the Up button's onclick of widget i
UpOnClick(st, i) == StoreAndSend(st, i, UpValue(st.variables[i], StepOf(st.variables[i])))

\* the value a Down click gives to variable_def
DownValue(variable_def, step) ==
    RoundForType(variable_def.type, step,
                 clampValue(Sub(variable_def.value, step), RangeOf(variable_def)))

\* the Down button's onclick of widget i
DownOnClick(st, i) ==
    StoreAndSend(st, i, DownValue(st.variables[i], StepOf(st.variables[i])))

\* parseFloat(this.editValue) || 0, and parseInt(this.editValue) || 0 in its
\* place for the type "int"
Normalized(text, type) ==
    IF type = "int" THEN OrZero(ParseInt(text)) ELSE OrZero(ParseFloat(text))

\* this.isEditing = false; this.editValue = ""
EndEdit(st, i) == [st EXCEPT !.isEditing[i] = FALSE, !.editValue[i] = ""]

\* applyEdit without its first line, the return when not editing
applyEditUnguarded(st, i) ==
    EndEdit(StoreAndSend(st, i, clampValue(Normalized(st.editValue[i], st.variables[i].type),
                                           RangeOf(st.variables[i]))),
            i)

\* VariableComponent.applyEdit of widget i
applyEdit(st, i) ==
    IF ~st.isEditing[i] THEN st
    ELSE EndEdit(StoreAndSend(st, i,
                              clampValue(Normalized(st.editValue[i], st.variables[i].type),
                                         RangeOf(st.variables[i]))),
                 i)

\* the input's onfocus of widget i
OnFocus(st, i) ==
    [st EXCEPT !.isEditing[i] = TRUE,
               !.editValue[i] = NumberToString(st.variables[i].value)]

\* the input's oninput of widget i, e.target.value being text
OnInput(st, i, text) == [st EXCEPT !.editValue[i] = text]

\* the input's onblur of widget i
OnBlur(st, i) == applyEdit(st, i)

\* the input's onkeydown of widget i; e.target.blur() takes the focus from
\* the input, which runs its onblur before blur() returns
OnKeyDown(st, i, key) ==
    IF key \in {"Enter", "Escape"}
    THEN OnBlur(IF key = "Enter" THEN applyEdit(st, i) ELSE EndEdit(st, i), i)
    ELSE st

\* the result of a match that failed
Null == [null |-> TRUE]

\* trimmed.match(/^\.?(\w+)\s*=\s*(-?\d*\.?\d+)/): the two groups, or Null.
\* In t the name is a..b-1, the equals sign is at c, the value starts at d,
\* its digits at e, the digits before the point end before f and the value
\* ends before g.
MatchGroups(t, a, b, d, e, g) ==
    IF g = e THEN Null
    ELSE [varName |-> Slice(t, a, b - 1), value |-> Slice(t, d, g - 1)]

\* \.?\d+ at the end of the value: the point and the digits after it are
\* taken if there is a digit after the point
MatchDigits(t, a, b, d, e, f) ==
    MatchGroups(t, a, b, d, e,
                IF Char(t, f) = "." /\ Span(t, f + 1, Digits) > f + 1
                THEN Span(t, f + 1, Digits)
                ELSE f)

MatchValue(t, a, b, d) ==
    MatchDigits(t, a, b, d, IF Char(t, d) = "-" THEN d + 1 ELSE d,
                Span(t, IF Char(t, d) = "-" THEN d + 1 ELSE d, Digits))

MatchEquals(t, a, b, c) ==
    IF b = a \/ Char(t, c) # "=" THEN Null
    ELSE MatchValue(t, a, b, Span(t, c + 1, WhiteSpace))

MatchWord(t, a, b) == MatchEquals(t, a, b, Span(t, b, WhiteSpace))

MatchAssignment(trimmed) ==
    MatchWord(trimmed, IF StartsWith(trimmed, ".") THEN 2 ELSE 1,
              Span(trimmed, IF StartsWith(trimmed, ".") THEN 2 ELSE 1, WordChars))

\* state[varName] = parseFloat(value) if there is a match.  An assignment
\* to the key __proto__ of a number leaves an object as it is.
Assigned(state, match) ==
    IF match = Null THEN state
    ELSE IF match.varName = "__proto__" THEN state
    ELSE (match.varName :> ParseFloat(match.value)) @@ state

\* the loop of parseSimulationState from assignment k on; state is the
\* object so far, a function from its keys
RECURSIVE ParseAssignments(_, _, _)
ParseAssignments(assignments, k, state) ==
    IF k > Len(assignments) THEN state
    ELSE ParseAssignments(assignments, k + 1,
                          Assigned(state, MatchAssignment(Trim(assignments[k]))))

\* .replace(/^\.?\{/, "")
WithoutOpening(s) ==
    IF StartsWith(s, ".{") THEN Slice(s, 3, Len(s))
    ELSE IF StartsWith(s, "{") THEN Slice(s, 2, Len(s))
    ELSE s

\* .replace(/}$/, "")
WithoutClosing(s) == IF EndsWith(s, "}") THEN Slice(s, 1, Len(s) - 1) ELSE s

\* nothing in the try block throws for a string, so the result is never null
parseSimulationState(stateString) ==
    ParseAssignments(Split(WithoutClosing(WithoutOpening(Trim(stateString))), ","),
                     1, <<>>)

\* Math.PI, the double 884279719003555 * 2^-48
MathPI == [sign |-> 1, m |-> <<1443, 21777, 4349, 25>>, e |-> -48]

angleVariables == {"turn_rate", "sample_angle", "turn_rate_mod", "sample_angle_mod"}

\* Math.round((newValue / Math.PI) * 10000) / 10000
PerPi(newValue) ==
    Div(MathRound(Mul(Div(newValue, MathPI), FromInt(10000))), FromInt(10000))

\* FinalValue without Math.round for the type int
FinalValueNoRound(variable, newValue) ==
    clampValue(IF variable.name \in angleVariables THEN PerPi(newValue) ELSE newValue,
               RangeOf(variable))

\* variable.type === "int" ? Math.round(newValue) : newValue
RoundIfInt(type, newValue) == IF type = "int" THEN MathRound(newValue) ELSE newValue

\* what updateVariablesFromServer stores in variable for the value newValue
FinalValue(variable, newValue) ==
    clampValue(RoundIfInt(variable.type,
                          IF variable.name \in angleVariables THEN PerPi(newValue)
                          ELSE newValue),
               RangeOf(variable))

\* a value of every variable: that of the snapshot, 0 where it has none
ValueOrZero(serverState, name) ==
    IF name \in DOMAIN serverState THEN serverState[name] ELSE Zero

\* the loop body without the hasOwnProperty test: the variable is written,
\* with serverState[variable.name] || 0
UpdateVariableAlways(st, serverState, i) ==
    Store(st, i, FinalValue(st.variables[i],
                            ValueOrZero(serverState, st.variables[i].name)))

\* the text of the input of widget i becomes that of the variable's value
\* if the widget is being edited
Refreshed(st, i) ==
    IF st.isEditing[i]
    THEN [st EXCEPT !.editValue[i] = NumberToString(st.variables[i].value)]
    ELSE st

\* the loop body that also puts the new value in the edit buffer of a
\* widget that is being edited
UpdateVariableRefresh(st, serverState, i) ==
    IF st.variables[i].name \in DOMAIN serverState
    THEN Refreshed(Store(st, i, FinalValue(st.variables[i],
                                           serverState[st.variables[i].name])), i)
    ELSE st

\* the body of the loop of updateVariablesFromServer for variables[i]
UpdateVariable(st, serverState, i) ==
    IF st.variables[i].name \in DOMAIN serverState
    THEN Store(st, i, FinalValue(st.variables[i], serverState[st.variables[i].name]))
    ELSE st

\* for (const variable of variables), from variables[i] on
RECURSIVE UpdateVariables(_, _, _)
UpdateVariables(st, serverState, i) ==
    IF i > Len(st.variables) THEN st
    ELSE UpdateVariables(UpdateVariable(st, serverState, i), serverState, i + 1)

\* serverState.hasOwnProperty is the snapshot's own number when the snapshot
\* has the key hasOwnProperty: the call throws and the listener ends with
\* nothing written.  Else each variable the snapshot names is written, in
\* the order of the list.
updateVariablesFromServer(st, serverState) ==
    IF "hasOwnProperty" \in DOMAIN serverState THEN st
    ELSE UpdateVariables(st, serverState, 1)

\* the "message" listener of ws from the trimmed event.data on; serverState
\* is an object, never null, so updateVariablesFromServer is called
OnTrimmed(st, message) ==
    IF StartsWith(message, "Success: ")
    THEN updateVariablesFromServer(st, parseSimulationState(Slice(message, 10, Len(message))))
    ELSE st

\* the "message" listener of ws, event.data being data
OnMessage(st, data) == OnTrimmed(st, Trim(data))

(***************************************************************************)
(* The events.  Each action runs one handler to its end.  The environment  *)
(* is the user (focus, typing, keys, clicks), the remote process           *)
(* (messages) and the network (the transport opening and closing).         *)
(***************************************************************************)
\* the events counted by nEvents that a behaviour of Spec may hold
MaxEvents == 3

\* the clicks that a behaviour of SpecSteps may hold
MaxClicks == 10

\* the widgets the user works with: turn_rate_mod (an angle with the _mod
\* suffix), density_scale (the integer) and pheromone_decay_rate (the one
\* with a range and a negative step)
Operated == {6, 9, 10}

\* the widgets clicked in SpecSteps: move_dist (step 0.01) and
\* sample_angle_mod (step 0.05)
Stepped == {1, 8}

\* the texts the user types
Texts == {"-2.7", "abc", "12abc"}

\* the messages the remote process sends
Messages ==
    {"Success: .{ .density_scale = 2.5, .pheromone_decay_rate = 7, .bogus = 4 }\n",
     "Success: {turn_rate_mod=3.14159,hasOwnProperty=1}",
     "Success: {turn_rate_mod=-1.5708, density_scale=-0.5}",
     "Error: density_scale = 9"}

NoSession == [value |-> Zero, typed |-> FALSE, snapped |-> FALSE]

Init ==
    /\ variables = VariableData
    /\ isEditing = [i \in Widgets |-> FALSE]
    /\ editValue = [i \in Widgets |-> ""]
    /\ focused = 0
    /\ ws = [readyState |-> "CONNECTING", sent |-> <<>>]
    /\ event = [type |-> "mount", target |-> 0, data |-> "", log |-> <<>>,
                session |-> NoSession, wire |-> 0]
    /\ issued = <<>>
    /\ net = [i \in Widgets |-> [valid |-> TRUE, n |-> 0]]
    /\ session = NoSession
    /\ nEvents = 0

IsOpenSend(entry) == entry.op = "send" /\ entry.open

\* whether the handler wrote variable i
Wrote(log, i) ==
    \E k \in 1..Len(log) : log[k].op = "write" /\ log[k].name = variables[i].name

\* the handler of the event (type, target, data) took the program to st
Handled(type, target, data, st, newFocus, newSession) ==
    /\ variables' = st.variables
    /\ isEditing' = st.isEditing
    /\ editValue' = st.editValue
    /\ ws' = st.ws
    /\ focused' = newFocus
    /\ session' = IF /\ type = "message"
                      /\ focused # 0
                      /\ st.variables[focused] # variables[focused]
                   THEN [newSession EXCEPT !.snapped = TRUE]
                   ELSE newSession
    /\ event' = [type |-> type, target |-> target, data |-> data, log |-> st.log,
                 session |-> session, wire |-> Len(ws.sent)]
    /\ issued' = issued \o SelectSeq(st.log, IsOpenSend)
    /\ net' = [i \in Widgets |->
                 IF ~Wrote(st.log, i) \/ ~net[i].valid THEN net[i]
                 ELSE IF type = "Up" THEN [net[i] EXCEPT !.n = @ + 1]
                 ELSE IF type = "Down" THEN [net[i] EXCEPT !.n = @ - 1]
                 ELSE [net[i] EXCEPT !.valid = FALSE]]
    /\ nEvents' = nEvents + 1

\* the input of widget i gets the focus
Focus(i) ==
    /\ focused = 0
    /\ Handled("focus", i, "", OnFocus(Current, i), i,
               [value |-> variables[i].value, typed |-> FALSE, snapped |-> FALSE])

\* the user changes the text of the focused input to text
Input(i, text) ==
    /\ focused = i
    /\ Handled("input", i, text, OnInput(Current, i, text), i,
               [session EXCEPT !.typed = TRUE])

\* the user presses Enter or Escape in the focused input
KeyDown(i, key) ==
    /\ focused = i
    /\ Handled(key, i, editValue[i], OnKeyDown(Current, i, key), 0, NoSession)

\* the focused input loses the focus
Blur(i) ==
    /\ focused = i
    /\ Handled("blur", i, editValue[i], OnBlur(Current, i), 0, NoSession)

\* the user clicks the Up button of widget i; pressing a button takes the
\* focus from an input, whose blur is handled before the click
UpClick(i) ==
    /\ focused = 0
    /\ Handled("Up", i, "", UpOnClick(Current, i), focused, session)

\* the user clicks the Down button of widget i
DownClick(i) ==
    /\ focused = 0
    /\ Handled("Down", i, "", DownOnClick(Current, i), focused, session)

\* a message arrives, which takes an open transport
Message(data) ==
    /\ ws.readyState = "OPEN"
    /\ Handled("message", 0, data, OnMessage(Current, data), focused, session)

\* the transport: connecting, open, closed, and connecting again
\* (RobustWebSocket reconnects); its listeners only log
WsOpen ==
    /\ ws.readyState = "CONNECTING"
    /\ ws' = [ws EXCEPT !.readyState = "OPEN"]
    /\ UNCHANGED <<variables, isEditing, editValue, focused, event, issued, net,
                   session, nEvents>>

WsClose ==
    /\ ws.readyState \in {"CONNECTING", "OPEN"}
    /\ ws' = [ws EXCEPT !.readyState = "CLOSED"]
    /\ UNCHANGED <<variables, isEditing, editValue, focused, event, issued, net,
                   session, nEvents>>

WsReconnect ==
    /\ ws.readyState = "CLOSED"
    /\ ws' = [ws EXCEPT !.readyState = "CONNECTING"]
    /\ UNCHANGED <<variables, isEditing, editValue, focused, event, issued, net,
                   session, nEvents>>

UserEvent ==
    \E i \in Operated :
        \/ Focus(i)
        \/ \E text \in Texts : Input(i, text)
        \/ \E key \in {"Enter", "Escape"} : KeyDown(i, key)
        \/ Blur(i)
        \/ UpClick(i)
        \/ DownClick(i)

Next ==
    \/ nEvents < MaxEvents /\ UserEvent
    \/ nEvents < MaxEvents /\ \E data \in Messages : Message(data)
    \/ WsOpen
    \/ WsClose
    \/ WsReconnect

Spec == Init /\ [][Next]_vars

\* clicks only, before the transport opens
StepsNext ==
    /\ nEvents < MaxClicks
    /\ \E i \in Stepped : UpClick(i) \/ DownClick(i)

SpecSteps == Init /\ [][StepsNext]_vars

(***************************************************************************)
(* The claims.                                                             *)
(***************************************************************************)
\* the widget of the variable called name
Widget(name) == CHOOSE i \in Widgets : VariableData[i].name = name

\* the last event was a commit of an edit: applyEdit wrote the registry
Committed == event.type \in {"blur", "Enter"} /\ event.log # <<>>

\* the number of registry writes in a handler's log
Writes(log) == Cardinality({k \in 1..Len(log) : log[k].op = "write"})

\* C1: in every reachable state every variable that has a range has a value
\* that is a number, at least range.min when min is defined and at most
\* range.max when max is defined.
C1_ValueWithinRange ==
    \A i \in Widgets :
        "range" \in DOMAIN variables[i] =>
            /\ variables[i].value # NaN
            /\ "min" \in DOMAIN variables[i].range =>
                   Cmp(variables[i].range.min, variables[i].value) <= 0
            /\ "max" \in DOMAIN variables[i].range =>
                   Cmp(variables[i].value, variables[i].range.max) <= 0

\* the edit "12abc" of pheromone_decay_rate, read as 12, was committed and
\* the stored value is range.max
C1_Witness ==
    /\ Committed
    /\ event.target = Widget("pheromone_decay_rate")
    /\ event.data = "12abc"
    /\ variables[event.target].value = variables[event.target].range.max

SnapshotKeys(data) ==
    DOMAIN parseSimulationState(Slice(Trim(data), 10, Len(Trim(data))))

\* C3: handling a message changes a variable of the registry only if the
\* message starts with "Success: " and the variable's name is a key of the
\* decoded snapshot; every other variable keeps its value.
C3_MessageFrame ==
    [][(nEvents' = nEvents + 1 /\ event'.type = "message") =>
           \A i \in Widgets :
               variables'[i] # variables[i] =>
                   /\ StartsWith(Trim(event'.data), "Success: ")
                   /\ variables[i].name \in SnapshotKeys(event'.data)]_vars

\* a snapshot without turn_rate_mod and with an unknown key was applied:
\* density_scale was written and turn_rate_mod kept the 0.5 of a click
C3_Witness ==
    /\ event.type = "message"
    /\ "bogus" \in SnapshotKeys(event.data)
    /\ "turn_rate_mod" \notin SnapshotKeys(event.data)
    /\ variables[Widget("density_scale")].value = FromInt(3)
    /\ variables[Widget("turn_rate_mod")].value = ParseFloat("0.5")

\* the update that the message text carries: the variable's name and value
Decoded(text) ==
    LET tokens == Split(text, " ")
    IN  [name |-> IF Len(tokens) = 3 THEN tokens[1] \o "_" \o tokens[3] ELSE tokens[1],
         value |-> ParseFloat(tokens[2])]

\* C4: the messages on the wire are the updates passed to
\* sendVariableUpdate while the transport was open, one message each, in
\* the order of the calls; an update passed while it was not open is on the
\* wire neither then nor later.
C4_WireIsIssuedWhileOpen ==
    /\ Len(ws.sent) = Len(issued)
    /\ \A k \in 1..Len(ws.sent) :
           Decoded(ws.sent[k]) = [name |-> issued[k].name, value |-> issued[k].value]

\* two Up clicks on turn_rate_mod, the first while the transport was not
\* open: the wire holds the second update only
C4_Witness ==
    /\ nEvents = 2
    /\ event.type = "Up"
    /\ variables[Widget("turn_rate_mod")].value = FromInt(1)
    /\ ws.sent = <<"turn_rate 1 mod">>

\* the whole of the trimmed text is a decimal numeral: a sign, digits and a
\* point with digits after it, at least one digit in all
IsNumeric(text) ==
    LET t == Trim(text)
        a == IF StartsWith(t, "-") \/ StartsWith(t, "+") THEN 2 ELSE 1
        b == Span(t, a, Digits)
        c == IF Char(t, b) = "." THEN Span(t, b + 1, Digits) ELSE b
    IN  c = Len(t) + 1 /\ (b > a \/ c > b + 1)

\* the handler of the last event put a message on the wire
Sent == Len(ws.sent) > event.wire

\* C5: a message put on the wire by an edit commit or a click on variable n
\* is "<n> <v>" when n does not end in "_mod" and "<base> <v> mod" when n is
\* base followed by "_mod", where <v> is a decimal numeral that reads as the
\* value the registry now holds for n.
C5_WireFormat ==
    (event.type \in {"blur", "Enter", "Up", "Down"} /\ Sent) =>
        LET n == VariableData[event.target].name
            text == ws.sent[Len(ws.sent)]
            tokens == Split(text, " ")
        IN  /\ Len(tokens) = IF EndsWith(n, "_mod") THEN 3 ELSE 2
            /\ IF EndsWith(n, "_mod")
               THEN tokens[1] \o "_mod" = n /\ tokens[3] = "mod"
               ELSE tokens[1] = n
            /\ IsNumeric(tokens[2])
            /\ ParseFloat(tokens[2]) = variables[event.target].value

\* a Down click on turn_rate_mod was sent as "turn_rate -0.5 mod"
C5_Witness ==
    /\ event.type = "Down"
    /\ Sent
    /\ ws.sent[Len(ws.sent)] = "turn_rate -0.5 mod"

\* n is an integer nearest to v
IsNearestInteger(n, v) ==
    /\ IsInteger(n)
    /\ Cmp(Sub(n, v), ParseFloat("0.5")) <= 0
    /\ Cmp(Sub(v, n), ParseFloat("0.5")) <= 0

\* value is an integer nearest to v, clamped to the range
IsNearestClamped(value, v, range) ==
    \E n \in {MathRound(v), Sub(MathRound(v), FromInt(1))} :
        IsNearestInteger(n, v) /\ value = clampValue(n, range)

\* C6: a variable of type "int" written from the raw number v, by the commit
\* of an edit whose text is the numeral v or by a snapshot that gives it v,
\* holds the integer nearest to v, clamped to its range.
C6_IntegerWriteNearest ==
    /\ (Committed /\ variables[event.target].type = "int" /\ IsNumeric(event.data)) =>
           IsNearestClamped(variables[event.target].value, ParseFloat(event.data),
                            RangeOf(variables[event.target]))
    /\ (event.type = "message" /\ event.log # <<>>) =>
           \A i \in Widgets :
               (variables[i].type = "int" /\ variables[i].name \in SnapshotKeys(event.data)) =>
                   IsNearestClamped(
                       variables[i].value,
                       parseSimulationState(
                           Slice(Trim(event.data), 10, Len(Trim(event.data))))[variables[i].name],
                       RangeOf(variables[i]))

\* C7: the commit of an edit whose text is not a numeral stores zero
\* clamped to the variable's range, and passes that value to the send path.
C7_InvalidEditIsZero ==
    (Committed /\ ~IsNumeric(event.data)) =>
        LET zero == clampValue(Zero, RangeOf(variables[event.target]))
        IN  /\ variables[event.target].value = zero
            /\ \A k \in 1..Len(event.log) : event.log[k].value = zero

\* the steps of the clicked variables in hundredths
Hundredths == [move_dist |-> 1, sample_angle_mod |-> 5]

\* C8: after Up and Down clicks alone, a real variable that started at 0
\* holds exactly the decimal (Up clicks minus Down clicks) times its step:
\* k Up clicks with step 0.01 give exactly k/100, 0.1 after ten.
C8_NoDrift ==
    \A i \in Stepped :
        net[i].valid =>
            LET k == net[i].n * Hundredths[VariableData[i].name]
            IN  variables[i].value =
                    Decimal(IF k < 0 THEN -1 ELSE 1, BFromInt(IF k < 0 THEN -k ELSE k), -2)

\* ten Up clicks on move_dist: the value is 0.1
C8_Witness ==
    /\ net[Widget("move_dist")].valid
    /\ net[Widget("move_dist")].n = MaxClicks
    /\ variables[Widget("move_dist")].value = Decimal(1, BFromInt(MaxClicks), -2)

\* C9: the handling of Enter, with the blur it causes, writes the registry
\* once, puts at most one message on the wire and leaves editing mode; the
\* handling of Escape, with the blur it causes, writes nothing and sends
\* nothing; a blur of an input in editing mode commits once.
C9_SingleCommit ==
    /\ event.type = "Enter" =>
           /\ Writes(event.log) = 1
           /\ Len(event.log) = 2
           /\ Len(ws.sent) <= event.wire + 1
    /\ event.type = "Escape" => event.log = <<>> /\ Len(ws.sent) = event.wire
    /\ event.type \in {"Enter", "Escape", "blur"} =>
           ~isEditing[event.target] /\ editValue[event.target] = ""

\* Enter committed an edit and its one message is on the wire
C9_Witness ==
    /\ event.type = "Enter"
    /\ Writes(event.log) = 1
    /\ Len(ws.sent) = event.wire + 1

=============================================================================
